---------------------------- MODULE Spec2Model ----------------------------
(***************************************************************************)
(* The evaluation harness of the biaffine parser (src/src/eval.py) and its *)
(* use from src/src/main.py: the Evaluator listener, write_conll and       *)
(* exec_eval.                                                              *)
(*                                                                         *)
(* Text (file contents, the scorer's output, log messages) is a sequence   *)
(* of atoms: the separators " ", "\t" and "\n" are atoms of their own and  *)
(* every other atom is a word holding none of them, so that str.split,     *)
(* str.rsplit, str.rstrip and str.join act on atoms as they act on         *)
(* characters.  A Python float is a record holding its value in hundredths.*)
(***************************************************************************)
EXTENDS Integers, Sequences, FiniteSets, TLC

VARIABLES
    gold_file,  \* Evaluator._gold_file
    parsed,     \* Evaluator._parsed: sentences, heads, deprels, UAS, LAS
    files,      \* the temporary files that exist: name -> content
    calls,      \* the scorer invocations of the last operation, in order
    logged,     \* the messages the last operation gave to the logger
    parseCalls, \* the number of parser.parse calls of the last operation
    raised,     \* the exception the last operation left with, or NoError
    lastCall,   \* the last operation and its argument
    repeated,   \* the last operation is a report() that follows the same report()
    phase,      \* where trainer.fit stands, or "idle" without a trainer
    saver       \* the Saver: its best metric, the metrics it read, its saves

vars ==
    <<gold_file, parsed, files, calls, logged, parseCalls, raised, lastCall,
      repeated, phase, saver>>

-----------------------------------------------------------------------------
(* Bounds of the model *)

\* the most tokens the evaluator accumulates
MaxTokens == 2

\* the most epochs of a training
MaxEpochs == 4

-----------------------------------------------------------------------------
(* Python values *)

None == [type |-> "NoneType"]

Float(hundredths) == [type |-> "float", hundredths |-> hundredths]

NoError == "NoError"

SP == " "
TAB == "\t"
NL == "\n"

Whitespace == {SP, TAB, NL}

\* the decimal literals the model's texts hold, with their value in
\* hundredths
FloatLiterals ==
    [w \in {"88.2", "91.4", "93.1", "0.75", "0.80", "0.85"} |->
        CASE w = "88.2" -> 8820
          [] w = "91.4" -> 9140
          [] w = "93.1" -> 9310
          [] w = "0.75" -> 75
          [] w = "0.80" -> 80
          [] w = "0.85" -> 85]

Digits == <<"0", "1", "2", "3", "4", "5", "6", "7", "8", "9">>

\* str(n) of an integer
RECURSIVE str(_)
str(n) ==
    IF n < 0 THEN "-" \o str(0 - n)
    ELSE IF n < 10 THEN Digits[n + 1]
    ELSE str(n \div 10) \o Digits[(n % 10) + 1]

\* seq[:n]
Take(seq, n) == SubSeq(seq, 1, IF n < Len(seq) THEN n ELSE Len(seq))

\* str.split(sep, maxsplit)
RECURSIVE split(_, _, _)
split(s, sep, maxsplit) ==
    IF maxsplit = 0 \/ ~(\E i \in 1..Len(s) : s[i] = sep)
    THEN <<s>>
    ELSE LET i == CHOOSE k \in 1..Len(s) :
                      s[k] = sep /\ \A m \in 1..(k - 1) : s[m] # sep
         IN  <<SubSeq(s, 1, i - 1)>>
                 \o split(SubSeq(s, i + 1, Len(s)), sep, maxsplit - 1)

\* str.rsplit(sep, maxsplit)
RECURSIVE rsplit(_, _, _)
rsplit(s, sep, maxsplit) ==
    IF maxsplit = 0 \/ ~(\E i \in 1..Len(s) : s[i] = sep)
    THEN <<s>>
    ELSE LET i == CHOOSE k \in 1..Len(s) :
                      s[k] = sep /\ \A m \in (k + 1)..Len(s) : s[m] # sep
         IN  rsplit(SubSeq(s, 1, i - 1), sep, maxsplit - 1)
                 \o <<SubSeq(s, i + 1, Len(s))>>

\* str.rstrip()
RECURSIVE rstrip(_)
rstrip(s) ==
    IF s # << >> /\ s[Len(s)] \in Whitespace
    THEN rstrip(SubSeq(s, 1, Len(s) - 1))
    ELSE s

\* sep.join(fields), each field a word
RECURSIVE join(_, _)
join(sep, fields) ==
    IF fields = << >> THEN << >>
    ELSE IF Len(fields) = 1 THEN <<fields[1]>>
    ELSE <<fields[1], sep>> \o join(sep, Tail(fields))

\* float(s): the value, or ValueError for a text that is no decimal literal
float(s) ==
    IF Len(s) = 1 /\ s[1] \in DOMAIN FloatLiterals
    THEN [raised |-> NoError, value |-> Float(FloatLiterals[s[1]])]
    ELSE [raised |-> "ValueError", value |-> None]

-----------------------------------------------------------------------------
(* The data of the model: tokens, sentences, the relation map *)

Token(id, form, lemma, tag, head, deprel) ==
    [id |-> id, form |-> form, lemma |-> lemma, cpostag |-> tag,
     postag |-> tag \o "P", feats |-> "_", head |-> head, deprel |-> deprel,
     phead |-> "-", pdeprel |-> "="]

\* the root token the loader puts in front of every sentence of a batch
RootToken == Token(0, "<ROOT>", "<root>", "ROOT", 0, "root")

SentDog == <<Token(1, "Dog", "dog", "NN", 2, "nsubj"),
             Token(2, "barks", "bark", "VB", 0, "root")>>

SentHi == <<Token(1, "Hi", "hi", "UH", 0, "root")>>

Sentences == {SentDog, SentHi}

\* loader.rel_map: relation id -> label, id 0 first
rel_map == <<"dep", "nsubj">>

\* DeprelMap.lookup(id): the label, or KeyError for an id the map does not hold
lookup(id) ==
    IF id \in 0..(Len(rel_map) - 1)
    THEN [raised |-> NoError, value |-> rel_map[id + 1]]
    ELSE [raised |-> "KeyError", value |-> ""]

\* the relation ids append() may be given for a token: below 0, in the map,
\* and one the map does not hold
PredictedIds == (0 - 1)..Len(rel_map)

\* the heads the parser may predict for a sentence
PredictedHeads(sentence) ==
    IF Len(sentence) = 1 THEN {<<1>>} ELSE {<<0, 1>>}

\* parser.parse of one sentence: a (heads, deprels) pair
Predictions(sentence) ==
    {<<h, d>> : h \in PredictedHeads(sentence),
                d \in [1..Len(sentence) -> PredictedIds]}

\* one sentence of a batch with its prediction
Items ==
    UNION {{[sentence |-> s, pred |-> p] : p \in Predictions(s)} : s \in Sentences}

List(items) == [type |-> "list", items |-> items]

-----------------------------------------------------------------------------
(* write_conll *)

\* a head field that is the token's own whatever heads holds
HeadFieldOwn(token, i, j, heads) ==
    [raised |-> NoError, value |-> str(token.head)]

\* the head field of a token line: str(heads[i][j]) or str(token['head'])
HeadField(token, i, j, heads) ==
    IF heads.type = "NoneType"
    THEN [raised |-> NoError, value |-> str(token.head)]
    ELSE IF i <= Len(heads.items) /\ j <= Len(heads.items[i])
    THEN [raised |-> NoError, value |-> str(heads.items[i][j])]
    ELSE [raised |-> "IndexError", value |-> ""]

\* the deprel field of a token line: deprels[i][j] or token['deprel']
DeprelField(token, i, j, deprels) ==
    IF deprels.type = "NoneType"
    THEN [raised |-> NoError, value |-> token.deprel]
    ELSE IF i <= Len(deprels.items) /\ j <= Len(deprels.items[i])
    THEN [raised |-> NoError, value |-> deprels.items[i][j]]
    ELSE [raised |-> "IndexError", value |-> ""]

\* the ten tab-separated fields of a token and the newline
TokenLine(token, i, j, heads, deprels) ==
    LET h == HeadField(token, i, j, heads)
        d == DeprelField(token, i, j, deprels)
    IN  IF h.raised # NoError THEN [raised |-> h.raised, text |-> << >>]
        ELSE IF d.raised # NoError THEN [raised |-> d.raised, text |-> << >>]
        ELSE [raised |-> NoError,
              text |-> join(TAB, <<str(token.id), token.form, token.lemma,
                                   token.cpostag, token.postag, token.feats,
                                   h.value, d.value, token.phead,
                                   token.pdeprel>>) \o <<NL>>]

\* the lines of the tokens j.. of sentence i
RECURSIVE WriteTokens(_, _, _, _, _)
WriteTokens(tokens, i, j, heads, deprels) ==
    IF j > Len(tokens) THEN [raised |-> NoError, text |-> << >>]
    ELSE LET line == TokenLine(tokens[j], i, j, heads, deprels)
         IN  IF line.raised # NoError THEN line
             ELSE LET rest == WriteTokens(tokens, i, j + 1, heads, deprels)
                  IN  [raised |-> rest.raised, text |-> line.text \o rest.text]

\* the blocks of the sentences i..
RECURSIVE WriteSentences(_, _, _, _)
WriteSentences(sentences, i, heads, deprels) ==
    IF i > Len(sentences) THEN [raised |-> NoError, text |-> << >>]
    ELSE LET block == WriteTokens(sentences[i], i, 1, heads, deprels)
         IN  IF block.raised # NoError THEN block
             ELSE LET rest == WriteSentences(sentences, i + 1, heads, deprels)
                  IN  [raised |-> rest.raised,
                       text |-> block.text \o <<NL>> \o rest.text]

\* write_conll(writer, sentences, heads, deprels): what the writer receives,
\* and the exception that ended the writing, if any
write_conll(sentences, heads, deprels) ==
    WriteSentences(sentences, 1, heads, deprels)

-----------------------------------------------------------------------------
(* exec_eval and the external scorer *)

PERL == <<"/", "usr", "bin", "perl">>

SCRIPT == <<"/", "src", "common", "eval.pl">>

\* "  Labeled   attachment score: 88.2 %" and the like
ScoreLine(name, pad, value, unit) ==
    <<name>> \o pad \o <<"attachment", SP, "score:", SP, value>> \o unit

\* the scorer's -q output: the scores with a unit after them, a third line
StdoutScores ==
    ScoreLine("Labeled", <<SP, SP, SP>>, "88.2", <<SP, "%">>) \o <<NL>>
        \o ScoreLine("Unlabeled", <<SP>>, "91.4", <<SP, "%">>) \o <<NL>>
        \o ScoreLine("Label", <<SP>>, "93.1", <<SP, "%">>) \o <<NL>>

\* two lines that end with the score itself
StdoutBare ==
    ScoreLine("Labeled", <<SP, SP, SP>>, "88.2", << >>) \o <<NL>>
        \o ScoreLine("Unlabeled", <<SP>>, "91.4", << >>) \o <<NL>>

\* one line only
StdoutOneLine ==
    ScoreLine("Labeled", <<SP, SP, SP>>, "88.2", <<SP, "%">>)

StdoutEmpty == << >>

Stdouts == {StdoutScores, StdoutBare, StdoutOneLine, StdoutEmpty}

StderrWarning == <<"warning", NL>>

StderrMismatch == <<"Error:", SP, "mismatch", NL, NL>>

StderrNoFile == <<"Can't", SP, "open", SP, "file", NL>>

\* what one run of the scorer may do: exit 0 with some output, or exit non-zero
ScorerRuns ==
    {[returncode |-> 0, stdout |-> o, stderr |-> StderrWarning] : o \in Stdouts}
    \cup {[returncode |-> 1, stdout |-> StdoutOneLine, stderr |-> StderrMismatch],
          [returncode |-> 2, stdout |-> StdoutEmpty, stderr |-> StderrNoFile]}

\* the scorer's output for a labeled and an unlabeled score
StdoutOf(las, uas) ==
    ScoreLine("Labeled", <<SP, SP, SP>>, las, <<SP, "%">>) \o <<NL>>
        \o ScoreLine("Unlabeled", <<SP>>, uas, <<SP, "%">>) \o <<NL>>

\* what one run of the scorer may do during a training: exit 0 with one of
\* three unlabeled scores, or fail
TrainingRuns ==
    {[returncode |-> 0, stdout |-> StdoutOf("0.75", uas),
      stderr |-> StderrWarning] : uas \in {"0.75", "0.80", "0.85"}}
    \cup {[returncode |-> 1, stdout |-> StdoutOneLine, stderr |-> StderrMismatch]}

\* the runs of the scorer tried in a phase of the trainer, or without one
Runs(phase_) == IF phase_ = "idle" THEN ScorerRuns ELSE TrainingRuns

\* the command line of exec_eval
Command(parsed_file, gold_file_, show_details) ==
    <<PERL, SCRIPT, <<"-g">>, gold_file_, <<"-s">>, parsed_file>>
        \o (IF ~show_details THEN << <<"-q">> >> ELSE << >>)

\* the last field of the line as a float
ScoreOfLast(line) ==
    LET parts == rsplit(line, SP, 2)
    IN  float(parts[Len(parts)])

\* line.rsplit(' ', 2)[-2] as a float
ScoreOf(line) ==
    LET parts == rsplit(line, SP, 2)
    IN  IF Len(parts) < 2
        THEN [raised |-> "IndexError", value |-> None]
        ELSE float(parts[Len(parts) - 1])

\* the two scores read into each other's place
ParseScoresSwapped(output) ==
    LET lines == Take(split(output, NL, 2), 2)
        first == ScoreOf(lines[1])
    IN  IF first.raised # NoError
        THEN [raised |-> first.raised, LAS |-> None, UAS |-> None]
        ELSE IF Len(lines) < 2
        THEN [raised |-> "ValueError", LAS |-> None, UAS |-> None]
        ELSE LET second == ScoreOf(lines[2])
             IN  IF second.raised # NoError
                 THEN [raised |-> second.raised, LAS |-> None, UAS |-> None]
                 ELSE [raised |-> NoError,
                       LAS |-> second.value, UAS |-> first.value]

\* result['LAS'], result['UAS'] = [float(...) for line in lines]
ParseScores(output) ==
    LET lines == Take(split(output, NL, 2), 2)
        first == ScoreOf(lines[1])
    IN  IF first.raised # NoError
        THEN [raised |-> first.raised, LAS |-> None, UAS |-> None]
        ELSE IF Len(lines) < 2
        THEN [raised |-> "ValueError", LAS |-> None, UAS |-> None]
        ELSE LET second == ScoreOf(lines[2])
             IN  IF second.raised # NoError
                 THEN [raised |-> second.raised, LAS |-> None, UAS |-> None]
                 ELSE [raised |-> NoError,
                       LAS |-> first.value, UAS |-> second.value]

\* exec_eval, given what the scorer's run p did: the result, or the exception
exec_eval(p) ==
    LET output == IF p.returncode = 0 THEN p.stdout ELSE p.stderr
        result == [code |-> p.returncode, raw |-> output,
                   UAS |-> None, LAS |-> None]
    IN  IF p.returncode = 0
        THEN LET scores == ParseScores(output)
             IN  [raised |-> scores.raised,
                  result |-> [result EXCEPT !.LAS = scores.LAS,
                                            !.UAS = scores.UAS]]
        ELSE [raised |-> NoError, result |-> result]

\* exec_eval for each of the scorer's runs
Outcome == [p \in ScorerRuns \cup TrainingRuns |-> exec_eval(p)]

-----------------------------------------------------------------------------
(* Temporary files *)

TmpNames ==
    {<<"/", "tmp", "tmp1">>, <<"/", "tmp", "tmp2">>,
     <<"/", "tmp", "tmp3">>, <<"/", "tmp", "tmp4">>}

\* NamedTemporaryFile(): a name no existing file has
NamedTemporaryFile(fs) == CHOOSE n \in TmpNames : n \notin DOMAIN fs

\* the file `name` holding `text`
WriteFile(fs, name, text) ==
    [n \in DOMAIN fs \cup {name} |-> IF n = name THEN text ELSE fs[n]]

\* a with block that deleted its file on a normal exit only
WithExitOnSuccess(fs, name, exc) ==
    IF exc = NoError THEN [n \in DOMAIN fs \ {name} |-> fs[n]] ELSE fs

\* leaving the with block of the file `name`, with or without an exception
WithExit(fs, name, exc) ==
    [n \in DOMAIN fs \ {name} |-> fs[n]]

\* the content of a file the scorer reads: a temporary file or a file of the
\* user, whose content the evaluator never sees
ReadFile(fs, name) ==
    IF name \in DOMAIN fs THEN fs[name] ELSE <<"<content of>">> \o name

\* one invocation of the scorer by exec_eval(parsed_file, gold_file, ...)
Invocation(fs, parsed_file, gold_file_, show_details, p) ==
    [command |-> Command(parsed_file, gold_file_, show_details),
     parsed_file |-> parsed_file,
     gold_file |-> gold_file_,
     hypothesis |-> ReadFile(fs, parsed_file),
     gold |-> ReadFile(fs, gold_file_),
     run |-> p,
     outcome |-> Outcome[p]]

-----------------------------------------------------------------------------
(* Evaluator: set_gold, reset, append *)

Home == <<"/", "home", "user">>

Cwd == <<"/", "work">>

\* os.path.expanduser
expanduser(path) == IF path[1] = "~" THEN Home \o Tail(path) ELSE path

\* os.path.abspath
abspath(path) == IF path[1] = "/" THEN path ELSE Cwd \o path

\* the gold files a caller may name
GoldArgs == {<<"~", "dev.conll">>, <<"test.conll">>}

\* set_gold: the path stored in _gold_file
GoldPath(gold_file_) == abspath(expanduser(gold_file_))

\* reset: the value given to _parsed
EmptyParsed ==
    [sentences |-> << >>, heads |-> << >>, deprels |-> << >>,
     UAS |-> None, LAS |-> None]

\* the default taken for the id 1 as well
DeprelIdFromTwo(d) == IF d > 1 THEN d ELSE 0

\* d if d > 0 else 0
DeprelId(d) == IF d > 0 THEN d ELSE 0

\* [self._deprel_map.lookup(d if d > 0 else 0) for d in deprel]
RECURSIVE Labels(_)
Labels(deprel) ==
    IF deprel = << >> THEN [raised |-> NoError, value |-> << >>]
    ELSE LET label == lookup(DeprelId(deprel[1]))
         IN  IF label.raised # NoError
             THEN [raised |-> label.raised, value |-> << >>]
             ELSE LET rest == Labels(Tail(deprel))
                  IN  [raised |-> rest.raised,
                       value |-> <<label.value>> \o rest.value]

\* list.extend over the generator of label lists: the lists made before one
\* of them raised stay appended
RECURSIVE ExtendLabels(_, _)
ExtendLabels(list, deprels) ==
    IF deprels = << >> THEN [raised |-> NoError, value |-> list]
    ELSE LET labels == Labels(deprels[1])
         IN  IF labels.raised # NoError
             THEN [raised |-> labels.raised, value |-> list]
             ELSE ExtendLabels(Append(list, labels.value), Tail(deprels))

\* the sentences of a batch, and the parser's predictions for them
BatchSentences(batch) == [i \in 1..Len(batch) |-> batch[i].sentence]

BatchParsed(batch) == [i \in 1..Len(batch) |-> batch[i].pred]

\* the number of tokens of a sequence of sentences
RECURSIVE Tokens(_)
Tokens(sentences) ==
    IF sentences = << >> THEN 0
    ELSE Len(sentences[1]) + Tokens(Tail(sentences))

\* the batches of at most n tokens: sentences, each with its prediction
RECURSIVE BatchesOf(_)
BatchesOf(n) ==
    {<< >>} \cup
    UNION {{<<item>> \o rest : rest \in BatchesOf(n - Len(item.sentence))} :
               item \in {x \in Items : Len(x.sentence) <= n}}

\* the batches the evaluator has room for
Room(acc) == BatchesOf(MaxTokens - Tokens(acc.sentences))

\* the relation ids the parser predicts: it has n_rels = len(rel_map)
\* relations; a negative id is one append() has its default for
ParserIds == (0 - 1)..(Len(rel_map) - 1)

\* a batch whose predictions parser.parse may give
FromParser(batch) ==
    \A i \in 1..Len(batch) :
        \A j \in 1..Len(batch[i].pred[2]) : batch[i].pred[2][j] \in ParserIds

\* the batches on_batch_end may append
ParsedRoom(acc) == {batch \in Room(acc) : FromParser(batch)}

\* append(sentences, parsed): the new _parsed and the exception, if any
AppendTo(acc, sentences, parsed_) ==
    LET acc1 == [acc EXCEPT !.sentences = @ \o sentences]
    IN  IF parsed_ = << >>
        THEN \* heads, deprels = zip(*parsed) has nothing to unpack
             [raised |-> "ValueError", parsed |-> acc1]
        ELSE LET heads == [i \in 1..Len(parsed_) |-> parsed_[i][1]]
                 deprels == [i \in 1..Len(parsed_) |-> parsed_[i][2]]
                 acc2 == [acc1 EXCEPT !.heads = @ \o heads]
                 ext == ExtendLabels(acc2.deprels, deprels)
             IN  [raised |-> ext.raised,
                  parsed |-> [acc2 EXCEPT !.deprels = ext.value]]

-----------------------------------------------------------------------------
(* Evaluator.report *)

\* a retry whatever the first run did
NeedsRetryAlways(result) == TRUE

\* if result['code'] != 0:  # retry
NeedsRetry(result) == result.code # 0

\* write_conll(gold_f, self._parsed['sentences'])
RegeneratedGold(acc) == write_conll(acc.sentences, None, None)

\* write_conll(f, sentences, heads, deprels)
Hypothesis(acc) ==
    write_conll(acc.sentences, List(acc.heads), List(acc.deprels))

\* a scoring that cleared the metrics when it failed
StoreResultOrClear(acc, result) ==
    IF result.code = 0
    THEN [acc EXCEPT !.UAS = result.UAS, !.LAS = result.LAS]
    ELSE [acc EXCEPT !.UAS = None, !.LAS = None]

\* a scoring that stored the UAS alone
StoreResultUAS(acc, result) ==
    IF result.code = 0
    THEN [acc EXCEPT !.UAS = result.UAS]
    ELSE acc

\* a scoring that dropped the sentences it scored
StoreResultAndClear(acc, result) ==
    IF result.code = 0
    THEN [acc EXCEPT !.UAS = result.UAS, !.LAS = result.LAS,
                     !.sentences = << >>]
    ELSE acc

\* the metrics after the result of the scoring
StoreResult(acc, result) ==
    IF result.code = 0
    THEN [acc EXCEPT !.UAS = result.UAS, !.LAS = result.LAS]
    ELSE acc

\* a message that left the exit code out
MessageWithoutCode(result) ==
    IF result.code = 0
    THEN <<"[evaluation]", NL>> \o rstrip(result.raw)
    ELSE <<"[evaluation]", SP, "ERROR:", SP>> \o rstrip(result.raw)

\* the message given to the logger
Message(result) ==
    IF result.code = 0
    THEN <<"[evaluation]", NL>> \o rstrip(result.raw)
    ELSE <<"[evaluation]", SP, "ERROR(" \o str(result.code) \o "):", SP>>
             \o rstrip(result.raw)

\* a report() that gave the logger the failure of the first run as well
ReportBoth(fs, acc, gold_file_, show_details, hyp, gold, run1, run2) ==
    LET f == NamedTemporaryFile(fs)
        fs1 == WriteFile(fs, f, hyp.text)
        call1 == Invocation(fs1, f, gold_file_, show_details, run1)
        gold_f == NamedTemporaryFile(fs1)
        fs2 == WriteFile(fs1, gold_f, gold.text)
        call2 == Invocation(fs2, f, gold_f, show_details, run2)
        Left(fs_, calls_, exc) ==
            [files |-> fs_, calls |-> calls_, parsed |-> acc,
             logged |-> << >>, raised |-> exc]
    IN  IF hyp.raised # NoError
        THEN Left(WithExit(fs1, f, hyp.raised), << >>, hyp.raised)
        ELSE IF call1.outcome.raised # NoError
        THEN Left(WithExit(fs1, f, call1.outcome.raised), <<call1>>,
                  call1.outcome.raised)
        ELSE IF ~NeedsRetry(call1.outcome.result)
        THEN [files |-> WithExit(fs1, f, NoError), calls |-> <<call1>>,
              parsed |-> StoreResult(acc, call1.outcome.result),
              logged |-> <<Message(call1.outcome.result)>>,
              raised |-> NoError]
        ELSE IF gold.raised # NoError
        THEN Left(WithExit(WithExit(fs2, gold_f, gold.raised), f, gold.raised),
                  <<call1>>, gold.raised)
        ELSE IF call2.outcome.raised # NoError
        THEN Left(WithExit(WithExit(fs2, gold_f, call2.outcome.raised), f,
                           call2.outcome.raised),
                  <<call1, call2>>, call2.outcome.raised)
        ELSE [files |-> WithExit(WithExit(fs2, gold_f, NoError), f, NoError),
              calls |-> <<call1, call2>>,
              parsed |-> StoreResult(acc, call2.outcome.result),
              logged |-> <<Message(call1.outcome.result),
                           Message(call2.outcome.result)>>,
              raised |-> NoError]

\* report(show_details) when write_conll gives hyp and (for the retry) gold
\* and the scorer's runs do run1 and, if it is run a second time, run2: the
\* files, invocations, metrics, messages and exception report() leaves
ReportOutcome(fs, acc, gold_file_, show_details, hyp, gold, run1, run2) ==
    LET f == NamedTemporaryFile(fs)
        fs1 == WriteFile(fs, f, hyp.text)
        call1 == Invocation(fs1, f, gold_file_, show_details, run1)
        gold_f == NamedTemporaryFile(fs1)
        fs2 == WriteFile(fs1, gold_f, gold.text)
        call2 == Invocation(fs2, f, gold_f, show_details, run2)
        Left(fs_, calls_, exc) ==
            [files |-> fs_, calls |-> calls_, parsed |-> acc,
             logged |-> << >>, raised |-> exc]
        Scored(fs_, calls_, result) ==
            [files |-> fs_, calls |-> calls_,
             parsed |-> StoreResult(acc, result),
             logged |-> <<Message(result)>>, raised |-> NoError]
    IN  IF hyp.raised # NoError
        THEN Left(WithExit(fs1, f, hyp.raised), << >>, hyp.raised)
        ELSE IF call1.outcome.raised # NoError
        THEN Left(WithExit(fs1, f, call1.outcome.raised), <<call1>>,
                  call1.outcome.raised)
        ELSE IF ~NeedsRetry(call1.outcome.result)
        THEN Scored(WithExit(fs1, f, NoError), <<call1>>, call1.outcome.result)
        ELSE IF gold.raised # NoError
        THEN Left(WithExit(WithExit(fs2, gold_f, gold.raised), f, gold.raised),
                  <<call1>>, gold.raised)
        ELSE IF call2.outcome.raised # NoError
        THEN Left(WithExit(WithExit(fs2, gold_f, call2.outcome.raised), f,
                           call2.outcome.raised),
                  <<call1, call2>>, call2.outcome.raised)
        ELSE Scored(WithExit(WithExit(fs2, gold_f, NoError), f, NoError),
                    <<call1, call2>>, call2.outcome.result)

-----------------------------------------------------------------------------
(* The state machine *)

Call(name, arg) == [name |-> name, arg |-> arg]

NoArg == [none |-> TRUE]

\* what an operation that scores nothing leaves in the record of the last
\* operation
Quiet(exc, nparse) ==
    /\ repeated' = FALSE
    /\ calls' = << >>
    /\ logged' = << >>
    /\ parseCalls' = nparse
    /\ raised' = exc

\* Evaluator(parser, deprel_map, gold_file, logger)
Constructed(g) ==
    /\ gold_file = GoldPath(g)
    /\ parsed = EmptyParsed
    /\ files = << >>
    /\ calls = << >>
    /\ logged = << >>
    /\ parseCalls = 0
    /\ raised = NoError
    /\ lastCall = Call("__init__", [gold_file |-> g])
    /\ repeated = FALSE

\* a Saver that has read no metric yet
NewSaver == [best |-> None, observed |-> << >>, saved |-> << >>]

\* an evaluator that is called directly, no trainer and no Saver at work
Untrained == UNCHANGED <<phase, saver>>

Init ==
    \E g \in GoldArgs :
        /\ Constructed(g)
        /\ phase = "idle"
        /\ saver = NewSaver

\* a set_gold that kept what was accumulated
set_gold_only(g) ==
    /\ gold_file' = GoldPath(g)
    /\ Quiet(NoError, 0)
    /\ lastCall' = Call("set_gold", [gold_file |-> g])
    /\ UNCHANGED <<parsed, files>>

\* set_gold(gold_file)
set_gold(g) ==
    /\ gold_file' = GoldPath(g)
    /\ parsed' = EmptyParsed
    /\ Quiet(NoError, 0)
    /\ lastCall' = Call("set_gold", [gold_file |-> g])
    /\ UNCHANGED files

reset ==
    /\ parsed' = EmptyParsed
    /\ Quiet(NoError, 0)
    /\ lastCall' = Call("reset", NoArg)
    /\ UNCHANGED <<gold_file, files>>

append(batch) ==
    /\ Tokens(parsed.sentences) + Tokens(BatchSentences(batch)) <= MaxTokens
    /\ \E out \in {AppendTo(parsed, BatchSentences(batch),
                             BatchParsed(batch))} :
           /\ parsed' = out.parsed
           /\ Quiet(out.raised, 0)
    /\ lastCall' = Call("append", [batch |-> batch])
    /\ UNCHANGED <<gold_file, files>>

\* the scorer is run a second time only after a first run that exits non-zero
SecondRun(run1, run2) == run1.returncode # 0 \/ run2 = run1

\* the last argument of a command line: the hypothesis file or -q
Quiet_q(call) == call.command[Len(call.command)] = <<"-q">>

\* the runs of a scorer that answers the same to the same question: a run
\* that repeats an invocation of the report() just before does what it did
Repeats(calls_) ==
    \A j \in 1..Len(calls_), k \in 1..Len(calls) :
        (/\ calls[k].hypothesis = calls_[j].hypothesis
         /\ calls[k].gold = calls_[j].gold
         /\ Quiet_q(calls[k]) = Quiet_q(calls_[j]))
            => calls[k].run = calls_[j].run

\* the operations that are a call of report(), and its show_details
Reports == {"report", "on_epoch_validate_end"}

ShowDetails(call) ==
    IF call.name = "report" THEN call.arg.show_details ELSE FALSE

\* self.report(show_details), called as the operation `name`
Scoring(name, arg, show_details, deterministic) ==
    /\ Cardinality(TmpNames \ DOMAIN files) >= 2
    /\ \E hyp \in {Hypothesis(parsed)}, gold \in {RegeneratedGold(parsed)} :
           \E run1, run2 \in Runs(phase) :
               /\ SecondRun(run1, run2)
               /\ \E out \in {ReportOutcome(files, parsed, gold_file,
                                             show_details, hyp, gold,
                                             run1, run2)} :
                      /\ deterministic => Repeats(out.calls)
                      /\ files' = out.files
                      /\ calls' = out.calls
                      /\ parsed' = out.parsed
                      /\ logged' = out.logged
                      /\ raised' = out.raised
    /\ parseCalls' = 0
    /\ lastCall' = Call(name, arg)
    /\ repeated' = (lastCall.name \in Reports
                       /\ ShowDetails(lastCall) = show_details)
    /\ UNCHANGED gold_file

report(show_details, deterministic) ==
    Scoring("report", [show_details |-> show_details], show_details,
            deterministic)

on_batch_begin(train) ==
    /\ Quiet(NoError, 0)
    /\ lastCall' = Call("on_batch_begin", [train |-> train])
    /\ UNCHANGED <<gold_file, parsed, files>>

\* an on_batch_end that ran the parser on a training batch
on_batch_end_train_parsed ==
    /\ Quiet(NoError, 1)
    /\ lastCall' = Call("on_batch_end", [train |-> TRUE])
    /\ UNCHANGED <<gold_file, parsed, files>>

\* on_batch_end of a training batch
on_batch_end_train ==
    /\ Quiet(NoError, 0)
    /\ lastCall' = Call("on_batch_end", [train |-> TRUE])
    /\ UNCHANGED <<gold_file, parsed, files>>

\* on_batch_end of a validation batch: xs[-1] holds the sentences behind
\* their root token, parser.parse gives the predictions
on_batch_end_validate(batch) ==
    /\ Tokens(parsed.sentences) + Tokens(BatchSentences(batch)) <= MaxTokens
    /\ \E xs \in {[i \in 1..Len(batch) |->
                         <<RootToken>> \o batch[i].sentence]} :
           \E out \in {AppendTo(parsed, [i \in 1..Len(xs) |-> Tail(xs[i])],
                                 BatchParsed(batch))} :
               /\ parsed' = out.parsed
               /\ Quiet(out.raised, 1)
    /\ lastCall' = Call("on_batch_end", [train |-> FALSE, batch |-> batch])
    /\ UNCHANGED <<gold_file, files>>

\* an on_epoch_validate_begin that kept the evaluator as it was
on_epoch_validate_begin_kept ==
    /\ Quiet(NoError, 0)
    /\ lastCall' = Call("on_epoch_validate_begin", NoArg)
    /\ UNCHANGED <<gold_file, parsed, files>>

on_epoch_validate_begin ==
    /\ parsed' = EmptyParsed
    /\ Quiet(NoError, 0)
    /\ lastCall' = Call("on_epoch_validate_begin", NoArg)
    /\ UNCHANGED <<gold_file, files>>

on_epoch_validate_end(deterministic) ==
    Scoring("on_epoch_validate_end", NoArg, FALSE, deterministic)

Next ==
    \/ \E g \in GoldArgs : set_gold(g) /\ Untrained
    \/ reset /\ Untrained
    \/ \E batch \in Room(parsed) : append(batch) /\ Untrained
    \/ \E sd \in BOOLEAN : report(sd, FALSE) /\ Untrained
    \/ \E train \in BOOLEAN : on_batch_begin(train) /\ Untrained
    \/ on_batch_end_train /\ Untrained
    \/ \E batch \in ParsedRoom(parsed) : on_batch_end_validate(batch) /\ Untrained
    \/ on_epoch_validate_begin /\ Untrained
    \/ on_epoch_validate_end(FALSE) /\ Untrained

Spec == Init /\ [][Next]_vars

\* the same machine with a scorer that is a function of what it is given
NextDeterministic ==
    \/ \E g \in GoldArgs : set_gold(g) /\ Untrained
    \/ reset /\ Untrained
    \/ \E batch \in Room(parsed) : append(batch) /\ Untrained
    \/ \E sd \in BOOLEAN : report(sd, TRUE) /\ Untrained
    \/ \E train \in BOOLEAN : on_batch_begin(train) /\ Untrained
    \/ on_batch_end_train /\ Untrained
    \/ \E batch \in ParsedRoom(parsed) : on_batch_end_validate(batch) /\ Untrained
    \/ on_epoch_validate_begin /\ Untrained
    \/ on_epoch_validate_end(TRUE) /\ Untrained

SpecDeterministic == Init /\ [][NextDeterministic]_vars

\* the evaluator as a listener of the trainer: nothing but its events
NextListener ==
    \/ \E train \in BOOLEAN : on_batch_begin(train) /\ Untrained
    \/ on_batch_end_train /\ Untrained
    \/ \E batch \in ParsedRoom(parsed) : on_batch_end_validate(batch) /\ Untrained
    \/ on_epoch_validate_begin /\ Untrained
    \/ on_epoch_validate_end(FALSE) /\ Untrained

SpecListener == Init /\ [][NextListener]_vars

-----------------------------------------------------------------------------
(* The training: trainer.fit with the evaluator and the Saver as listeners *)

\* the Saver's metric read from the unlabeled score in place of the UAS
EvaluateLAS == parsed.LAS

\* evaluate=lambda _: evaluator.result['UAS']
Evaluate == parsed.UAS

\* the Saver after it read a metric: it saves when the metric is above every
\* metric it read before; a metric of None is no improvement
SaverObserve(s, metric) ==
    LET better == /\ metric # None
                  /\ \/ s.best = None
                     \/ metric.hundredths > s.best.hundredths
    IN  [best |-> IF better THEN metric ELSE s.best,
         observed |-> Append(s.observed, metric),
         saved |-> Append(s.saved, better)]

\* an exception of a listener ends trainer.fit
Fitting(phases) == phase \in phases /\ raised = NoError

\* the test_file of train(), the evaluator's gold file
test_file == <<"test.conll">>

InitTraining ==
    /\ Constructed(test_file)
    /\ phase = "train"
    /\ saver = NewSaver

fit_batch_begin ==
    /\ Fitting({"train", "validate"})
    /\ on_batch_begin(phase = "train")
    /\ UNCHANGED <<phase, saver>>

fit_batch_end_train ==
    /\ Fitting({"train"})
    /\ on_batch_end_train
    /\ UNCHANGED <<phase, saver>>

fit_epoch_validate_begin ==
    /\ Fitting({"train"})
    /\ Len(saver.observed) < MaxEpochs
    /\ on_epoch_validate_begin
    /\ phase' = "validate"
    /\ UNCHANGED saver

fit_batch_end_validate(batch) ==
    /\ Fitting({"validate"})
    /\ on_batch_end_validate(batch)
    /\ UNCHANGED <<phase, saver>>

\* epoch_validate_end as the evaluator receives it
fit_epoch_validate_end ==
    /\ Fitting({"validate"})
    /\ on_epoch_validate_end(FALSE)
    /\ phase' = "scored"
    /\ UNCHANGED saver

\* epoch_validate_end as the Saver receives it, after the evaluator
Saver_on_epoch_validate_end ==
    /\ Fitting({"scored"})
    /\ saver' = SaverObserve(saver, Evaluate)
    /\ phase' = "train"
    /\ UNCHANGED <<gold_file, parsed, files, calls, logged, parseCalls, raised,
                   lastCall, repeated>>

NextTraining ==
    \/ fit_batch_begin
    \/ fit_batch_end_train
    \/ fit_epoch_validate_begin
    \/ \E batch \in ParsedRoom(parsed) : fit_batch_end_validate(batch)
    \/ fit_epoch_validate_end
    \/ Saver_on_epoch_validate_end

SpecTraining == InitTraining /\ [][NextTraining]_vars

-----------------------------------------------------------------------------
(* Properties *)

\* the last operation was a call of report()
Reported == lastCall.name \in Reports

\* the last operation was a call of report() that ran the scorer twice
Retried == Reported /\ Len(calls) = 2

\* the scorer's run exited non-zero
Failed(call) == call.run.returncode # 0

\* text ends with the text tail
EndsWith(text, tail) ==
    /\ Len(tail) <= Len(text)
    /\ SubSeq(text, Len(text) - Len(tail) + 1, Len(text)) = tail

\* C1: when the first run of the scorer exits non-zero, report() runs it a
\* second time on the same, unchanged hypothesis file against the gold
\* written again from the accumulated sentences with their own heads and
\* relations, and when that second run exits 0 the stored UAS and LAS are
\* those of the second run.
C1_RetryStoresSecond ==
    (Reported /\ Len(calls) >= 1 /\ Failed(calls[1])) =>
        /\ Len(calls) = 2
        /\ calls[2].parsed_file = calls[1].parsed_file
        /\ calls[2].hypothesis = calls[1].hypothesis
        /\ calls[2].gold_file # calls[1].gold_file
        /\ calls[2].gold = write_conll(parsed.sentences, None, None).text
        /\ ~Failed(calls[2]) =>
               /\ parsed.UAS = calls[2].outcome.result.UAS
               /\ parsed.LAS = calls[2].outcome.result.LAS

\* C1, the part the code keeps: the retry as stated, and the stored metrics
\* those of the second run whenever exec_eval read two scores from it.
C1_RetryWhenParsed ==
    (Reported /\ Len(calls) >= 1 /\ Failed(calls[1])) =>
        /\ Len(calls) = 2
        /\ calls[2].parsed_file = calls[1].parsed_file
        /\ calls[2].hypothesis = calls[1].hypothesis
        /\ calls[2].gold_file # calls[1].gold_file
        /\ calls[2].gold = write_conll(parsed.sentences, None, None).text
        /\ (~Failed(calls[2]) /\ calls[2].outcome.raised = NoError) =>
               /\ raised = NoError
               /\ parsed.UAS = calls[2].outcome.result.UAS
               /\ parsed.LAS = calls[2].outcome.result.LAS
               /\ parsed.UAS # None
               /\ parsed.LAS # None

\* a retry that scored: the first run failed, the second gave two scores
C1_Witness ==
    /\ Retried
    /\ Failed(calls[1])
    /\ ~Failed(calls[2])
    /\ raised = NoError
    /\ parsed.sentences # << >>
    /\ parsed.UAS = Float(9140)
    /\ parsed.LAS = Float(8820)

\* the message names the exit code of the run and ends with its diagnostic
\* text
C2_Surfaced(message, run) ==
    /\ \E i \in 1..Len(message) :
           message[i] = "ERROR(" \o str(run.returncode) \o "):"
    /\ EndsWith(message, rstrip(run.stderr))
    /\ rstrip(run.stderr) # << >>

\* C2: when both runs of the scorer exit non-zero, report() returns without
\* raising, leaves UAS and LAS as they were (unset, when they were unset) and
\* gives the logger one message with the exit code and the diagnostic text.
C2_BothFail ==
    [][(/\ lastCall'.name \in Reports
        /\ Len(calls') = 2
        /\ Failed(calls'[1])
        /\ Failed(calls'[2]))
           => /\ raised' = NoError
              /\ parsed'.UAS = parsed.UAS
              /\ parsed'.LAS = parsed.LAS
              /\ (parsed.UAS = None /\ parsed.LAS = None)
                     => (parsed'.UAS = None /\ parsed'.LAS = None)
              /\ Len(logged') = 1
              /\ C2_Surfaced(logged'[1], calls'[2].run)]_vars

\* both runs failed, with different exit codes, and no metrics were set
C2_Witness ==
    /\ Retried
    /\ Failed(calls[1])
    /\ Failed(calls[2])
    /\ calls[1].run.returncode # calls[2].run.returncode
    /\ raised = NoError
    /\ parsed.UAS = None
    /\ Len(logged) = 1

\* C3: no temporary file of report() exists once report() is left, whatever
\* the way it is left.
C3_NoTempFiles ==
    /\ DOMAIN files = {}
    /\ \A k \in 1..Len(calls) :
           /\ calls[k].parsed_file \notin DOMAIN files
           /\ calls[k].gold_file \notin DOMAIN files

\* report() left with an exception after it had made both files
C3_Witness ==
    /\ Retried
    /\ raised # NoError
    /\ calls[2].gold_file \in TmpNames
    /\ calls[2].parsed_file \in TmpNames
    /\ calls[2].hypothesis # << >>
    /\ DOMAIN files = {}

\* C4: whatever the scorer does, report() returns without raising, and what
\* went wrong is in the message given to the logger.
C4_NeverRaises ==
    (Reported /\ Len(calls) >= 1) => (raised = NoError /\ Len(logged) = 1)

\* the fields of a line, and the one before the last
C5_Fields(line) == split(line, SP, 0 - 1)

C5_Field(line) == C5_Fields(line)[Len(C5_Fields(line)) - 1]

\* C5: for a run that exits 0, the LAS exec_eval gives is the field before
\* the last of the first line of the standard output and the UAS that of the
\* second line; for a run that exits non-zero, UAS and LAS are None and raw
\* is the standard error.
C5_ExecEval ==
    \A k \in 1..Len(calls) :
        LET p == calls[k].run
            o == calls[k].outcome
            lines == split(p.stdout, NL, 0 - 1)
        IN  /\ (p.returncode = 0 /\ o.raised = NoError) =>
                   /\ Len(lines) >= 2
                   /\ o.result.code = 0
                   /\ o.result.raw = p.stdout
                   /\ o.result.LAS = float(C5_Field(lines[1])).value
                   /\ o.result.UAS = float(C5_Field(lines[2])).value
                   /\ o.result.LAS # None
                   /\ o.result.UAS # None
            /\ p.returncode # 0 =>
                   /\ o.raised = NoError
                   /\ o.result.code = p.returncode
                   /\ o.result.UAS = None
                   /\ o.result.LAS = None
                   /\ o.result.raw = p.stderr

\* a failed run and a run of three lines, read by exec_eval
C5_Witness ==
    /\ Retried
    /\ Failed(calls[1])
    /\ calls[1].outcome.result.raw = StderrMismatch
    /\ calls[2].run.returncode = 0
    /\ calls[2].run.stdout = StdoutScores
    /\ calls[2].outcome.result.LAS = Float(8820)
    /\ calls[2].outcome.result.UAS = Float(9140)

\* the two lines of the scenario, and the same lines with a unit behind the
\* score
C6_Labeled == <<"Labeled", SP, SP, SP, "attachment", SP, "score:", SP, "88.2">>

C6_Unlabeled == <<"Unlabeled", SP, "attachment", SP, "score:", SP, "91.4">>

C6_Unit == <<SP, "%">>

\* the first two lines of a text
C6_Lines(text) == Take(split(text, NL, 0 - 1), 2)

\* C6, as stated: for exit code 0 and the lines 'Labeled   attachment score:
\* 88.2' and 'Unlabeled attachment score: 91.4', exec_eval gives LAS = 88.2
\* and UAS = 91.4.
C6_BareScores ==
    \A k \in 1..Len(calls) :
        (/\ calls[k].run.returncode = 0
         /\ C6_Lines(calls[k].run.stdout) = <<C6_Labeled, C6_Unlabeled>>)
            => /\ calls[k].outcome.raised = NoError
               /\ calls[k].outcome.result.LAS = Float(8820)
               /\ calls[k].outcome.result.UAS = Float(9140)

\* C6, amended: exec_eval gives LAS = 88.2 and UAS = 91.4 for exit code 0 and
\* the lines 'Labeled   attachment score: 88.2 %' and 'Unlabeled attachment
\* score: 91.4 %', where one more field follows each score; for the two lines
\* that end with the score it raises ValueError and gives no score.
C6_ScoresBeforeLastField ==
    \A k \in 1..Len(calls) :
        /\ (/\ calls[k].run.returncode = 0
            /\ C6_Lines(calls[k].run.stdout)
                   = <<C6_Labeled \o C6_Unit, C6_Unlabeled \o C6_Unit>>)
               => /\ calls[k].outcome.raised = NoError
                  /\ calls[k].outcome.result.LAS = Float(8820)
                  /\ calls[k].outcome.result.UAS = Float(9140)
        /\ (/\ calls[k].run.returncode = 0
            /\ C6_Lines(calls[k].run.stdout) = <<C6_Labeled, C6_Unlabeled>>)
               => /\ calls[k].outcome.raised = "ValueError"
                  /\ calls[k].outcome.result.LAS = None
                  /\ calls[k].outcome.result.UAS = None

\* exec_eval read the lines with a unit, and report() stored the scores
C6_Witness ==
    /\ Reported
    /\ Len(calls) = 1
    /\ calls[1].run.returncode = 0
    /\ C6_Lines(calls[1].run.stdout)
           = <<C6_Labeled \o C6_Unit, C6_Unlabeled \o C6_Unit>>
    /\ calls[1].outcome.result.LAS = Float(8820)
    /\ parsed.LAS = Float(8820)
    /\ parsed.UAS = Float(9140)

\* the label of the relation map for a predicted id
C7_Label(d) == IF d <= 0 THEN rel_map[1] ELSE rel_map[d + 1]

\* the line of the text of write_conll that holds token j of sentence i
C7_LineOf(sentences, i, j) == Tokens(SubSeq(sentences, 1, i - 1)) + (i - 1) + j

\* the relation field of a line of the text of write_conll
C7_Deprel(line) == split(line, TAB, 0 - 1)[8]

\* the last operation appended a batch
C7_Appended(call) ==
    call.name \in {"append", "on_batch_end"} /\ "batch" \in DOMAIN call.arg

\* C7: append() stores, for each predicted id d of each sentence, the label
\* of id 0 when d <= 0 and the label of id d when d > 0, in the order of the
\* ids; the hypothesis report() writes holds the stored labels, each in the
\* line of its token.
C7_Labels ==
    /\ [][C7_Appended(lastCall') =>
            LET batch == lastCall'.arg.batch
                n == Len(parsed.deprels)
                stored == Len(parsed'.deprels) - n
            IN  /\ stored \in 0..Len(batch)
                /\ raised' = NoError => stored = Len(batch)
                /\ SubSeq(parsed'.deprels, 1, n) = parsed.deprels
                /\ \A i \in 1..stored :
                       LET ids == batch[i].pred[2]
                           labels == parsed'.deprels[n + i]
                       IN  /\ Len(labels) = Len(ids)
                           /\ \A j \in 1..Len(ids) :
                                  labels[j] = C7_Label(ids[j])]_vars
    /\ [](Reported /\ Len(calls) >= 1 =>
            LET lines == split(calls[1].hypothesis, NL, 0 - 1)
            IN  \A i \in 1..Len(parsed.sentences) :
                    \A j \in 1..Len(parsed.sentences[i]) :
                        C7_Deprel(lines[C7_LineOf(parsed.sentences, i, j)])
                            = <<parsed.deprels[i][j]>>)

\* append() stored the labels of the ids -1 and 1
C7_Witness ==
    /\ lastCall.name = "append"
    /\ raised = NoError
    /\ Len(lastCall.arg.batch) = 1
    /\ lastCall.arg.batch[1].pred[2] = <<0 - 1, 1>>
    /\ parsed.deprels = << <<"dep", "nsubj">> >>

\* the empty state, and the absolute path of each gold file argument
C8_Empty ==
    [sentences |-> << >>, heads |-> << >>, deprels |-> << >>,
     UAS |-> None, LAS |-> None]

C8_Path(g) ==
    IF g = <<"~", "dev.conll">> THEN <<"/", "home", "user", "dev.conll">>
    ELSE <<"/", "work", "test.conll">>

\* C8: reset() and set_gold(file) leave the empty state whatever the state
\* before; set_gold makes `file` the gold file, which only set_gold changes
\* and which the first run of the scorer of every report() is given.
C8_ResetAndSetGold ==
    [][/\ lastCall'.name \in {"reset", "set_gold"} => parsed' = C8_Empty
       /\ lastCall'.name = "set_gold" =>
              gold_file' = C8_Path(lastCall'.arg.gold_file)
       /\ lastCall'.name # "set_gold" => gold_file' = gold_file
       /\ (lastCall'.name \in Reports /\ Len(calls') >= 1) =>
              /\ calls'[1].gold_file = gold_file'
              /\ calls'[1].command[4] = gold_file'
              /\ calls'[1].command[3] = <<"-g">>]_vars

\* set_gold was called and left the empty state and the new gold file
C8_Witness ==
    /\ lastCall.name = "set_gold"
    /\ lastCall.arg.gold_file = <<"~", "dev.conll">>
    /\ gold_file = <<"/", "home", "user", "dev.conll">>
    /\ parsed = C8_Empty

\* C9: a report() that follows a report() directly, the scorer answering the
\* same to the same files, leaves the UAS and LAS the first one left and
\* gives the scorer the same hypothesis.
C9_Idempotent ==
    [][(/\ lastCall.name \in Reports
        /\ lastCall'.name \in Reports
        /\ ShowDetails(lastCall) = ShowDetails(lastCall'))
           => /\ parsed'.UAS = parsed.UAS
              /\ parsed'.LAS = parsed.LAS
              /\ Len(calls') = Len(calls)
              /\ \A k \in 1..Len(calls) :
                     calls'[k].hypothesis = calls[k].hypothesis
              /\ raised' = raised]_vars

\* a second report() of one sentence that scored as the first did
C9_Witness ==
    /\ Reported
    /\ repeated
    /\ raised = NoError
    /\ parsed.sentences # << >>
    /\ Len(calls) = 2
    /\ parsed.UAS = Float(9140)
    /\ parsed.LAS = Float(8820)

\* C10: report() directly after reset() writes an empty hypothesis, runs the
\* scorer, runs it again against an empty gold when the first run fails, and
\* returns without raising.
C10_EmptyReport ==
    [][(lastCall.name = "reset" /\ lastCall'.name = "report")
           => /\ raised' = NoError
              /\ Len(calls') >= 1
              /\ calls'[1].hypothesis = << >>
              /\ Failed(calls'[1]) =>
                     (Len(calls') = 2 /\ calls'[2].gold = << >>)]_vars

\* C10, the part the code keeps: the empty hypothesis and the retry against
\* the empty gold, and a return without raising unless exec_eval raises.
C10_EmptyReportWhenParsed ==
    [][(lastCall.name = "reset" /\ lastCall'.name = "report")
           => /\ Len(calls') >= 1
              /\ calls'[1].hypothesis = << >>
              /\ Failed(calls'[1]) =>
                     (Len(calls') = 2 /\ calls'[2].gold = << >>)
              /\ (\A k \in 1..Len(calls') : calls'[k].outcome.raised = NoError)
                     => raised' = NoError]_vars

\* the last operation was on_batch_end for a batch of the given kind
C11_BatchEnd(call, train) ==
    call.name = "on_batch_end" /\ call.arg.train = train

\* the accumulated lists with the sentences, heads and labels of a batch
\* behind them
C11_Sentences(acc, batch) ==
    acc.sentences \o [i \in 1..Len(batch) |-> batch[i].sentence]

C11_Heads(acc, batch) ==
    acc.heads \o [i \in 1..Len(batch) |-> batch[i].pred[1]]

C11_Deprels(acc, batch) ==
    acc.deprels \o [i \in 1..Len(batch) |->
                        [j \in 1..Len(batch[i].pred[2]) |->
                             C7_Label(batch[i].pred[2][j])]]

\* C11: of the events of the listener, on_epoch_validate_begin empties the
\* accumulated sentences, heads and deprels, on_batch_end for a validation
\* batch runs the parser once and puts the batch behind what is accumulated,
\* on_epoch_validate_end leaves the three lists as they are, and
\* on_batch_begin and on_batch_end for a training batch change nothing and do
\* not run the parser; so the lists are the validation batches since the last
\* on_epoch_validate_begin, in the order of their arrival.
C11_Accumulates ==
    [][/\ lastCall'.name = "on_epoch_validate_begin" =>
              /\ parsed'.sentences = << >>
              /\ parsed'.heads = << >>
              /\ parsed'.deprels = << >>
       /\ C11_BatchEnd(lastCall', FALSE) =>
              /\ parseCalls' = 1
              /\ parsed'.sentences = C11_Sentences(parsed, lastCall'.arg.batch)
              /\ parsed'.heads = C11_Heads(parsed, lastCall'.arg.batch)
              /\ parsed'.deprels = C11_Deprels(parsed, lastCall'.arg.batch)
       /\ lastCall'.name = "on_epoch_validate_end" =>
              /\ parsed'.sentences = parsed.sentences
              /\ parsed'.heads = parsed.heads
              /\ parsed'.deprels = parsed.deprels
       /\ (lastCall'.name = "on_batch_begin" \/ C11_BatchEnd(lastCall', TRUE)) =>
              /\ parseCalls' = 0
              /\ parsed' = parsed
              /\ gold_file' = gold_file
              /\ files' = files]_vars

\* a second validation batch arrived and stands behind the first
C11_Witness ==
    /\ C11_BatchEnd(lastCall, FALSE)
    /\ parseCalls = 1
    /\ raised = NoError
    /\ Len(lastCall.arg.batch) = 1
    /\ lastCall.arg.batch[1].sentence = SentHi
    /\ Len(parsed.sentences) = 2
    /\ parsed.sentences[2] = SentHi
    /\ parsed.heads = <<<<1>>, <<1>>>>
    /\ parsed.deprels[2] = <<C7_Label(lastCall.arg.batch[1].pred[2][1])>>

\* the gold files that exist and can be read; ~/dev.conll is not one of them
C12_Readable == {<<"/", "work", "test.conll">>}

\* the last operation set the gold file
C12_Setup == lastCall.name \in {"__init__", "set_gold"}

\* C12: the constructor and set_gold reject a gold file that is missing or
\* cannot be read, and the gold file a report() gives to the first run of the
\* scorer is one that exists and can be read.
C12_GoldValidated ==
    /\ (C12_Setup /\ gold_file \notin C12_Readable) => raised # NoError
    /\ (Reported /\ Len(calls) >= 1) => calls[1].gold_file \in C12_Readable

\* the one message about a run of the scorer: its output when it exited 0,
\* its exit code and diagnostic text when it did not
C13_MessageOf(run) ==
    IF run.returncode = 0
    THEN <<"[evaluation]", NL>> \o rstrip(run.stdout)
    ELSE <<"[evaluation]", SP, "ERROR(" \o str(run.returncode) \o "):", SP>>
             \o rstrip(run.stderr)

\* C13: a report() that returns has given the logger exactly one message,
\* the one about the last run of the scorer: the scorer's output when that run
\* exited 0, the exit code and the diagnostic text when it did not; after a
\* retry nothing of the first run is in it.
C13_OneMessage ==
    (Reported /\ raised = NoError) =>
        /\ Len(calls) \in {1, 2}
        /\ Len(logged) = 1
        /\ logged[1] = C13_MessageOf(calls[Len(calls)].run)
        /\ ~Failed(calls[Len(calls)]) =>
               /\ EndsWith(logged[1], rstrip(calls[Len(calls)].run.stdout))
               /\ \A i \in 1..Len(logged[1]) :
                      logged[1][i] \notin {"ERROR(1):", "ERROR(2):"}
        /\ Failed(calls[Len(calls)]) =>
               C2_Surfaced(logged[1], calls[Len(calls)].run)

\* the first run failed, the retry scored, and the one message is the
\* retry's output
C13_Witness ==
    /\ Retried
    /\ raised = NoError
    /\ Failed(calls[1])
    /\ calls[2].run.stdout = StdoutScores
    /\ Len(logged) = 1
    /\ logged[1][1] = "[evaluation]"
    /\ logged[1][2] = NL
    /\ logged[1][Len(logged[1])] = "%"

\* the metric read in pass k is a number above every number read before it
C14_Improves(observed, k) ==
    /\ observed[k] # None
    /\ \A j \in 1..(k - 1) :
           observed[j] # None => observed[j].hundredths < observed[k].hundredths

\* C14: the Saver saves after a validation pass exactly when the metric of
\* that pass, the evaluator's UAS, is above every metric it read earlier in
\* the training; for the metrics 0.80, 0.75, 0.85, 0.85 it saves twice, after
\* 0.80 and after the first 0.85.
C14_SavesOnImprovement ==
    /\ Len(saver.saved) = Len(saver.observed)
    /\ \A k \in 1..Len(saver.observed) :
           saver.saved[k] <=> C14_Improves(saver.observed, k)
    /\ (phase = "train" /\ saver.observed # << >>) =>
           saver.observed[Len(saver.observed)] = parsed.UAS
    /\ saver.observed = <<Float(80), Float(75), Float(85), Float(85)>> =>
           saver.saved = <<TRUE, FALSE, TRUE, FALSE>>

\* four validation passes gave the metrics 0.80, 0.75, 0.85, 0.85
C14_Witness ==
    /\ phase = "train"
    /\ saver.observed = <<Float(80), Float(75), Float(85), Float(85)>>
    /\ saver.saved = <<TRUE, FALSE, TRUE, FALSE>>
    /\ saver.best = Float(85)

\* the lines of a text and the fields of a line
C15_Lines(text) == split(text, NL, 0 - 1)

C15_Fields(line) == split(line, TAB, 0 - 1)

\* the eight fields of a line that write_conll takes from the token
C15_OfToken(fields, token) ==
    /\ Len(fields) = 10
    /\ fields[1] = <<str(token.id)>>
    /\ fields[2] = <<token.form>>
    /\ fields[3] = <<token.lemma>>
    /\ fields[4] = <<token.cpostag>>
    /\ fields[5] = <<token.postag>>
    /\ fields[6] = <<token.feats>>
    /\ fields[9] = <<token.phead>>
    /\ fields[10] = <<token.pdeprel>>

\* text holds, for each sentence in order, a line for each token in order
\* and a blank line behind them, and nothing else
C15_Layout(text, sentences) ==
    LET lines == C15_Lines(text)
    IN  /\ Len(lines) = Tokens(sentences) + Len(sentences) + 1
        /\ lines[Len(lines)] = << >>
        /\ \A i \in 1..Len(sentences) :
               /\ lines[C7_LineOf(sentences, i, Len(sentences[i]) + 1)] = << >>
               /\ \A j \in 1..Len(sentences[i]) :
                      C15_OfToken(
                          C15_Fields(lines[C7_LineOf(sentences, i, j)]),
                          sentences[i][j])

\* the head and the relation of the line of token j of sentence i
C15_Head(text, sentences, i, j) ==
    C15_Fields(C15_Lines(text)[C7_LineOf(sentences, i, j)])[7]

C15_Deprel(text, sentences, i, j) ==
    C15_Fields(C15_Lines(text)[C7_LineOf(sentences, i, j)])[8]

\* C15: the hypothesis and the regenerated gold that report() has write_conll
\* make hold one line of ten fields for each token and a blank line behind
\* each sentence, in order; eight fields are the token's in both; head and
\* relation are heads[i][j] and deprels[i][j] in the hypothesis and the
\* token's own in the regenerated gold.
C15_Conll ==
    /\ (Reported /\ Len(calls) >= 1) =>
           /\ C15_Layout(calls[1].hypothesis, parsed.sentences)
           /\ \A i \in 1..Len(parsed.sentences) :
                  \A j \in 1..Len(parsed.sentences[i]) :
                      /\ C15_Head(calls[1].hypothesis, parsed.sentences, i, j)
                             = <<str(parsed.heads[i][j])>>
                      /\ C15_Deprel(calls[1].hypothesis, parsed.sentences, i, j)
                             = <<parsed.deprels[i][j]>>
    /\ Retried =>
           /\ C15_Layout(calls[2].gold, parsed.sentences)
           /\ \A i \in 1..Len(parsed.sentences) :
                  \A j \in 1..Len(parsed.sentences[i]) :
                      /\ C15_Head(calls[2].gold, parsed.sentences, i, j)
                             = <<str(parsed.sentences[i][j].head)>>
                      /\ C15_Deprel(calls[2].gold, parsed.sentences, i, j)
                             = <<parsed.sentences[i][j].deprel>>

\* a hypothesis and a regenerated gold of two sentences that differ
C15_Witness ==
    /\ Retried
    /\ parsed.sentences = <<SentHi, SentHi>>
    /\ parsed.heads = <<<<1>>, <<1>>>>
    /\ calls[1].hypothesis # calls[2].gold
    /\ Len(C15_Lines(calls[1].hypothesis)) = 5
    /\ Len(C15_Lines(calls[2].gold)) = 5

\* C16: each exec_eval of a report() is one run of the scorer; report() runs
\* the scorer once when the first run exits 0, twice when the first run exits
\* non-zero, and never a third time, whatever the second run does; no other
\* operation runs the scorer.
C16_RunsOfScorer ==
    /\ Len(calls) <= 2
    /\ ~Reported => calls = << >>
    /\ (Reported /\ Len(calls) >= 1) =>
           /\ ~Failed(calls[1]) => Len(calls) = 1
           /\ Failed(calls[1]) => Len(calls) = 2
           /\ calls[1].command[1] = PERL
           /\ calls[1].command[2] = SCRIPT
    /\ (Reported /\ raised = NoError) => Len(calls) >= 1

\* the scorer failed in the same way twice and was not run again
C16_Witness ==
    /\ Reported
    /\ Len(calls) = 2
    /\ Failed(calls[1])
    /\ calls[2].run = calls[1].run
    /\ calls[2].gold_file # calls[1].gold_file

\* C17: the accumulated sentences, heads and deprels have the same length,
\* and the heads and the deprels of each sentence have the length of the
\* sentence, also after an append() that raised.
C17_Parallel ==
    /\ Len(parsed.heads) = Len(parsed.sentences)
    /\ Len(parsed.deprels) = Len(parsed.sentences)
    /\ \A i \in 1..Len(parsed.sentences) :
           /\ Len(parsed.heads[i]) = Len(parsed.sentences[i])
           /\ Len(parsed.deprels[i]) = Len(parsed.sentences[i])

\* C17, the part the code keeps: the lists are parallel as long as no
\* append() has raised in the lookup of a label; an append() of an empty
\* batch raises and changes nothing.
C17_ParallelUnlessLookupRaised ==
    [][/\ (C17_Parallel /\ raised' # "KeyError") => C17_Parallel'
       /\ (lastCall'.name = "append" /\ lastCall'.arg.batch = << >>) =>
              (raised' = "ValueError" /\ parsed' = parsed)]_vars

\* the evaluator has handled epoch_validate_end and the Saver reads the UAS
C18_Read == phase = "scored" /\ raised = NoError

\* C18: in a training, the UAS the Saver reads after on_epoch_validate_end is
\* None when the scoring of that validation pass failed, and otherwise the
\* unlabeled score the scorer gave for the hypothesis of what was accumulated
\* in that pass; the validation pass begins with nothing accumulated and no
\* UAS, so no UAS of an earlier epoch is read.
C18_MetricOfThisPass ==
    /\ [](C18_Read =>
            /\ Len(calls) >= 1
            /\ calls[1].hypothesis
                   = write_conll(parsed.sentences, List(parsed.heads),
                                 List(parsed.deprels)).text
            /\ Failed(calls[Len(calls)]) => Evaluate = None
            /\ ~Failed(calls[Len(calls)]) =>
                   /\ Evaluate = calls[Len(calls)].outcome.result.UAS
                   /\ Evaluate # None)
    /\ [][phase' = "validate" =>
            /\ lastCall'.name = "on_epoch_validate_begin" => parsed' = C8_Empty
            /\ lastCall'.name # "on_epoch_validate_begin" =>
                   (phase = "validate" /\ parsed'.UAS = None)]_vars

\* a validation pass whose scoring failed after an epoch that had a metric:
\* the Saver reads None
C18_Witness ==
    /\ C18_Read
    /\ saver.best = Float(85)
    /\ Len(calls) = 2
    /\ Failed(calls[2])
    /\ parsed.sentences # << >>
    /\ Evaluate = None

\* the report() of this step scored: it returned and the last run of the
\* scorer exited 0
C19_Succeeded(calls_, raised_) ==
    /\ raised_ = NoError
    /\ Len(calls_) >= 1
    /\ ~Failed(calls_[Len(calls_)])

\* C19: a report() leaves the accumulated sentences, heads and deprels and
\* the gold file as they were; one that does not succeed, because both runs
\* of the scorer fail or because an exception is raised, leaves UAS and LAS
\* as they were as well; one that succeeds sets UAS and LAS to the scores of
\* its last run and changes nothing else.
C19_Frame ==
    [][lastCall'.name \in Reports =>
          /\ gold_file' = gold_file
          /\ parsed'.sentences = parsed.sentences
          /\ parsed'.heads = parsed.heads
          /\ parsed'.deprels = parsed.deprels
          /\ ~C19_Succeeded(calls', raised') => parsed' = parsed
          /\ C19_Succeeded(calls', raised') =>
                 /\ parsed'.UAS = calls'[Len(calls')].outcome.result.UAS
                 /\ parsed'.LAS = calls'[Len(calls')].outcome.result.LAS]_vars

\* a report() that failed twice after a successful one: the earlier metrics
\* are still there
C19_Witness ==
    /\ Retried
    /\ raised = NoError
    /\ Failed(calls[2])
    /\ parsed.sentences # << >>
    /\ parsed.UAS = Float(9140)
    /\ parsed.LAS = Float(8820)

\* C20: UAS and LAS are both None or both a score; reset and set_gold clear
\* both, a report() changes both or none, and append changes none.
C20_BothOrNone ==
    /\ []((parsed.UAS = None) <=> (parsed.LAS = None))
    /\ [][/\ lastCall'.name \in {"reset", "set_gold"} =>
                 (parsed'.UAS = None /\ parsed'.LAS = None)
          /\ lastCall'.name \in {"append", "on_batch_end"} =>
                 (parsed'.UAS = parsed.UAS /\ parsed'.LAS = parsed.LAS)
          /\ lastCall'.name \in Reports =>
                 \/ (parsed'.UAS = parsed.UAS /\ parsed'.LAS = parsed.LAS)
                 \/ (/\ C19_Succeeded(calls', raised')
                     /\ parsed'.UAS # None
                     /\ parsed'.LAS # None)]_vars

\* an append() after a report() that scored: both metrics are still set
C20_Witness ==
    /\ lastCall.name = "append"
    /\ Len(lastCall.arg.batch) = 1
    /\ parsed.UAS = Float(9140)
    /\ parsed.LAS = Float(8820)

=============================================================================
